---- MODULE Spec2Model ----
(***************************************************************************)
(* Model of src/cprover/chc_db.h: the horn clause wrapper (horn_clauset),  *)
(* the clause database (chc_dbt) and the dependency graph (chc_grapht).    *)
(* Terms (exprt) are trees of nodes [id, name, ops]; the traversals of the *)
(* header (visit_pre) are computed over those trees.                       *)
(***************************************************************************)
EXTENDS Integers, Sequences, FiniteSets, TLC

VARIABLES
  m_clauses,      \* chc_dbt::m_clauses, the corpus (vector<horn_clauset>)
  m_state_preds,  \* chc_dbt::m_state_preds, the declared relation symbols
  m_body_idx,     \* chc_dbt::m_body_idx, relation -> clause ids (use)
  m_head_idx,     \* chc_dbt::m_head_idx, relation -> clause ids (def)
  m_incoming,     \* chc_grapht::m_incoming
  m_outgoing,     \* chc_grapht::m_outgoing
  m_entry,        \* chc_grapht::m_entry (nullptr when absent)
  last,           \* history: the last operation, its argument, and the
                  \* relations that had an index entry before it
  rep,            \* history: the term of all inserts so far and their count
  chc,            \* the horn_clauset the clause-level operations are called on
  ret_is_fact,    \* the values is_fact() returned for chc ({} = not called)
  ret_is_query,   \* the values is_query() returned for chc
  ret_head,       \* the values head() returned for chc
  ret_used_func_app  \* the sequences used_func_app(db, out) wrote to out for chc

dbvars == <<m_clauses, m_state_preds, m_body_idx, m_head_idx>>
graphvars == <<m_incoming, m_outgoing, m_entry>>
histvars == <<last, rep>>
clausevars == <<chc, ret_is_fact, ret_is_query, ret_head, ret_used_func_app>>
vars == <<m_clauses, m_state_preds, m_body_idx, m_head_idx, m_incoming,
          m_outgoing, m_entry, last, rep, chc, ret_is_fact, ret_is_query,
          ret_head, ret_used_func_app>>

(***************************************************************************)
(* Bounds.                                                                 *)
(***************************************************************************)
MaxClauses == 2
MaxRepeat == 3

(***************************************************************************)
(* Terms: the capability set consumed from util/std_expr.h and             *)
(* util/mathematical_expr.h.                                               *)
(***************************************************************************)
exprt(id, name, ops) == [id |-> id, name |-> name, ops |-> ops]

nullptr == exprt("nullptr", "", <<>>)

invariant_violation == exprt("INVARIANT", "", <<>>)

true_exprt == exprt("constant", "true", <<>>)

false_exprt == exprt("constant", "false", <<>>)

symbol_exprt(n) == exprt("symbol", n, <<>>)

tuple_exprt(args) == exprt("tuple", "", args)

function_application_exprt(f, args) ==
  exprt("function_application", "", <<f, tuple_exprt(args)>>)

and_exprt(a, b) == exprt("and", "", <<a, b>>)

implies_exprt(a, b) == exprt("=>", "", <<a, b>>)

forall_exprt(vs, w) == exprt("forall", "", <<tuple_exprt(vs), w>>)

\* exprt::is_true: a boolean constant that is not false
is_true(e) == e.id = "constant" /\ e.name = "true"

\* binding_exprt::where
where(f) == f.ops[2]

\* function_application_exprt::function
function(f) == f.ops[1]

\* exprt::visit_pre: the node itself and, recursively, every operand
RECURSIVE visit_pre(_)
visit_pre(e) == {e} \cup UNION {visit_pre(e.ops[i]) : i \in 1..Len(e.ops)}

\* can_cast_expr<function_application_exprt>
is_function_application(e) == e.id = "function_application"

\* can_cast_expr<implies_exprt>
is_implies(e) == e.id = "=>"

(***************************************************************************)
(* The term universe of the model.                                         *)
(***************************************************************************)
x == symbol_exprt("x")

y == symbol_exprt("y")

A == symbol_exprt("A")

B == symbol_exprt("B")

C == symbol_exprt("C")

Relations == {A, B, C}

Ax == function_application_exprt(A, <<x>>)

By == function_application_exprt(B, <<y>>)

Cxy == function_application_exprt(C, <<x, y>>)

Atoms == {true_exprt, false_exprt, Ax, By, Cxy}

Formulas == Atoms \cup {and_exprt(a, b) : a \in Atoms, b \in Atoms}

Wheres == Formulas \cup {implies_exprt(a, b) : a \in Formulas, b \in Formulas}

\* every clause the clause-level operations are applied to
ClauseInputs == {forall_exprt(<<x, y>>, w) : w \in Wheres}

Fact_A == forall_exprt(<<x, y>>, implies_exprt(true_exprt, Ax))

Fact_B == forall_exprt(<<x, y>>, implies_exprt(true_exprt, By))

Rule_ABC == forall_exprt(<<x, y>>, implies_exprt(and_exprt(Ax, By), Cxy))

Rule_CA == forall_exprt(<<x, y>>, implies_exprt(Cxy, Ax))

Query_C == forall_exprt(<<x, y>>, implies_exprt(Cxy, false_exprt))

NoImpl_A == forall_exprt(<<x, y>>, Ax)

Rule_A_BC == forall_exprt(<<x, y>>, implies_exprt(Ax, and_exprt(By, Cxy)))

\* the terms handed to add_clause
InsertInputs == {true_exprt, Fact_A, Fact_B, Rule_ABC, Rule_CA, Query_C,
                 NoImpl_A, Rule_A_BC}

(***************************************************************************)
(* horn_clauset                                                            *)
(***************************************************************************)
horn_clauset(f) == [m_chc |-> f]

get_chc(c) == c.m_chc

body(c) ==
  IF is_implies(where(get_chc(c)))
  THEN where(get_chc(c)).ops[1]
  ELSE where(get_chc(c))

\* head returning the whole formula, as body does, when there is no implication
head_whole(c) ==
  IF is_implies(where(get_chc(c)))
  THEN where(get_chc(c)).ops[2]
  ELSE where(get_chc(c))

head(c) ==
  IF is_implies(where(get_chc(c)))
  THEN where(get_chc(c)).ops[2]
  ELSE nullptr

\* is_fact counting only the applications of relations the database declares
is_fact_declared(c) ==
  LET not_fact == \E e \in visit_pre(body(c)) :
                    is_function_application(e) /\ function(e) \in m_state_preds
  IN ~ not_fact

is_fact(c) ==
  LET not_fact == \E e \in visit_pre(body(c)) : is_function_application(e)
  IN ~ not_fact

\* is_query walking the body instead of the head
is_query_body(c) ==
  IF is_implies(where(get_chc(c)))
  THEN ~ \E e \in visit_pre(body(c)) : is_function_application(e)
  ELSE FALSE

\* is_query without the implication test: a clause with no head is a query
is_query_no_implies_test(c) ==
  IF head(c) = nullptr THEN TRUE
  ELSE ~ \E e \in visit_pre(head(c)) : is_function_application(e)

is_query(c) ==
  IF is_implies(where(get_chc(c)))
  THEN ~ \E e \in visit_pre(head(c)) : is_function_application(e)
  ELSE FALSE

\* used_func_app walking the whole formula instead of the body
used_func_app_where(c, db) ==
  LET funcs == {e \in visit_pre(where(get_chc(c))) : is_function_application(e)}
  IN {f \in funcs : function(f) \in db}

\* used_func_app without the is_state_pred filter
used_func_app_no_filter(c, db) ==
  {e \in visit_pre(body(c)) : is_function_application(e)}

\* db stands for the declared set the filter is_state_pred consults
used_func_app(c, db) ==
  LET funcs == {e \in visit_pre(body(c)) : is_function_application(e)}
  IN {f \in funcs : function(f) \in db}

\* the sequences the loop over funcs can write to out: every element of the
\* unordered set once, in any order
used_func_app_out(c, db) ==
  {out \in [1..Cardinality(used_func_app(c, db)) -> used_func_app(c, db)] :
     \A i, j \in DOMAIN out : i # j => out[i] # out[j]}

(***************************************************************************)
(* chc_dbt                                                                 *)
(***************************************************************************)
\* the shared set after a caller wrote to it (it is not const)
m_empty_set_written == {0}

\* static chc_sett m_empty_set
m_empty_set == {}

\* an empty std::map
empty_map == [k \in {} |-> {}]

\* the map holding exactly the (key, member) pairs given
map_of(pairs) ==
  [k \in {p[1] : p \in pairs} |-> {p[2] : p \in {q \in pairs : q[1] = k}}]

has_state_pred(state) == state \in m_state_preds

\* add_state_pred replacing the set by the new symbol
add_state_pred_replace(state) == m_state_preds' = {state}

add_state_pred(state) == m_state_preds' = m_state_preds \cup {state}

use(state) ==
  IF state \notin DOMAIN m_body_idx THEN m_empty_set ELSE m_body_idx[state]

def(state) ==
  IF state \notin DOMAIN m_head_idx THEN m_empty_set ELSE m_head_idx[state]

\* clears both indices
reset_indices ==
  /\ m_body_idx' = empty_map
  /\ m_head_idx' = empty_map

\* the applications build_indices registers for the head of c: the head itself
\* when it is an application of a declared relation, else the applications of
\* declared relations directly below a compound head
head_func_app(c, db) ==
  IF head(c) = nullptr THEN {}
  ELSE IF is_function_application(head(c))
  THEN {f \in {head(c)} : function(f) \in db}
  ELSE {f \in {head(c).ops[i] : i \in 1..Len(head(c).ops)} :
          is_function_application(f) /\ function(f) \in db}

\* ids are positions in the vector, counted from 0
body_idx_of(clauses, db) ==
  map_of(UNION {{<<function(f), i - 1>> : f \in used_func_app(clauses[i], db)} :
                 i \in 1..Len(clauses)})

head_idx_of(clauses, db) ==
  map_of(UNION {{<<function(f), i - 1>> : f \in head_func_app(clauses[i], db)} :
                 i \in 1..Len(clauses)})

build_indices ==
  /\ m_body_idx' = body_idx_of(m_clauses, m_state_preds)
  /\ m_head_idx' = head_idx_of(m_clauses, m_state_preds)

\* add_clause without the scan for an equal clause
add_clause_no_scan(f) ==
  IF is_true(f)
  THEN UNCHANGED <<m_clauses, m_body_idx, m_head_idx>>
  ELSE /\ m_clauses' = Append(m_clauses, horn_clauset(f))
       /\ reset_indices

\* add_clause without the call of reset_indices
add_clause_no_reset(f) ==
  IF is_true(f)
  THEN UNCHANGED <<m_clauses, m_body_idx, m_head_idx>>
  ELSE IF \E i \in 1..Len(m_clauses) : get_chc(m_clauses[i]) = f
  THEN UNCHANGED <<m_clauses, m_body_idx, m_head_idx>>
  ELSE /\ m_clauses' = Append(m_clauses, horn_clauset(f))
       /\ UNCHANGED <<m_body_idx, m_head_idx>>

\* add_clause rebuilding the indices of the old corpus instead of clearing them
add_clause_rebuild(f) ==
  IF is_true(f)
  THEN UNCHANGED <<m_clauses, m_body_idx, m_head_idx>>
  ELSE IF \E i \in 1..Len(m_clauses) : get_chc(m_clauses[i]) = f
  THEN UNCHANGED <<m_clauses, m_body_idx, m_head_idx>>
  ELSE /\ m_clauses' = Append(m_clauses, horn_clauset(f))
       /\ build_indices

\* add_clause putting the new clause at the front of the vector
add_clause_front(f) ==
  IF is_true(f)
  THEN UNCHANGED <<m_clauses, m_body_idx, m_head_idx>>
  ELSE IF \E i \in 1..Len(m_clauses) : get_chc(m_clauses[i]) = f
  THEN UNCHANGED <<m_clauses, m_body_idx, m_head_idx>>
  ELSE /\ m_clauses' = <<horn_clauset(f)>> \o m_clauses
       /\ reset_indices

\* add_clause calling reset_indices before the scan for an equal clause
add_clause_reset_first(f) ==
  IF is_true(f)
  THEN UNCHANGED <<m_clauses, m_body_idx, m_head_idx>>
  ELSE IF \E i \in 1..Len(m_clauses) : get_chc(m_clauses[i]) = f
  THEN UNCHANGED m_clauses /\ reset_indices
  ELSE /\ m_clauses' = Append(m_clauses, horn_clauset(f))
       /\ reset_indices

\* add_clause without the is_true test
add_clause_no_true_test(f) ==
  IF \E i \in 1..Len(m_clauses) : get_chc(m_clauses[i]) = f
  THEN UNCHANGED <<m_clauses, m_body_idx, m_head_idx>>
  ELSE /\ m_clauses' = Append(m_clauses, horn_clauset(f))
       /\ reset_indices

add_clause(f) ==
  IF is_true(f)
  THEN UNCHANGED <<m_clauses, m_body_idx, m_head_idx>>
  ELSE IF \E i \in 1..Len(m_clauses) : get_chc(m_clauses[i]) = f
  THEN UNCHANGED <<m_clauses, m_body_idx, m_head_idx>>
  ELSE /\ m_clauses' = Append(m_clauses, horn_clauset(f))
       /\ reset_indices

\* get_clause with the bound one too low
get_clause_short(idx) ==
  IF idx + 1 < Len(m_clauses) THEN m_clauses[idx + 1] ELSE invariant_violation

get_clause(idx) ==
  IF idx < Len(m_clauses) THEN m_clauses[idx + 1] ELSE invariant_violation

(***************************************************************************)
(* chc_grapht                                                              *)
(***************************************************************************)
\* static std::unordered_set<exprt, irep_hash> m_expr_empty_set
m_expr_empty_set == {}

\* the relation a clause derives: the applied symbol of a head that is a single
\* application of a declared relation, nullptr otherwise
head_relation(c, db) ==
  IF head(c) # nullptr /\ is_function_application(head(c))
     /\ function(head(c)) \in db
  THEN function(head(c))
  ELSE nullptr

\* the body -> head edges of the clauses that are neither facts nor queries
edges_of(clauses, db) ==
  UNION {{<<function(f), head_relation(clauses[i], db)>> :
            f \in used_func_app(clauses[i], db)} :
         i \in {j \in 1..Len(clauses) :
                  /\ ~ is_fact(clauses[j])
                  /\ ~ is_query(clauses[j])
                  /\ head_relation(clauses[j], db) # nullptr}}

outgoing_of(clauses, db) == map_of(edges_of(clauses, db))

incoming_of(clauses, db) ==
  map_of({<<e[2], e[1]>> : e \in edges_of(clauses, db)})

\* the relations that head a fact and have no incoming edge
entry_candidates(clauses, db) ==
  {r \in db :
     /\ \E i \in 1..Len(clauses) :
          is_fact(clauses[i]) /\ head_relation(clauses[i], db) = r
     /\ r \notin DOMAIN incoming_of(clauses, db)}

entry_of(clauses, db) ==
  IF Cardinality(entry_candidates(clauses, db)) = 1
  THEN CHOOSE r \in entry_candidates(clauses, db) : TRUE
  ELSE nullptr

build_graph ==
  /\ m_outgoing' = outgoing_of(m_clauses, m_state_preds)
  /\ m_incoming' = incoming_of(m_clauses, m_state_preds)
  /\ m_entry' = entry_of(m_clauses, m_state_preds)

\* has_entry with the comparison inverted
has_entry_inverted == m_entry = nullptr

has_entry == m_entry # nullptr

\* entry without the INVARIANT
entry_unchecked == m_entry

entry == IF has_entry THEN m_entry ELSE invariant_violation

\* outgoing looking the relation up in m_incoming
outgoing_swapped(state) ==
  IF state \notin DOMAIN m_incoming THEN m_expr_empty_set ELSE m_incoming[state]

outgoing(state) ==
  IF state \notin DOMAIN m_outgoing THEN m_expr_empty_set ELSE m_outgoing[state]

\* incoming recomputed from the database at every query
incoming_live(state) ==
  IF state \notin DOMAIN incoming_of(m_clauses, m_state_preds)
  THEN m_expr_empty_set
  ELSE incoming_of(m_clauses, m_state_preds)[state]

incoming(state) ==
  IF state \notin DOMAIN m_incoming THEN m_expr_empty_set ELSE m_incoming[state]

(***************************************************************************)
(* History kept for the properties: the last call and what it found.       *)
(***************************************************************************)
indexed == DOMAIN m_body_idx \cup DOMAIN m_head_idx

called(op, arg) == last' = [op |-> op, arg |-> arg, indexed |-> indexed]

repeated(f) ==
  IF rep.n = 0 /\ rep.same THEN [t |-> f, n |-> 1, same |-> TRUE]
  ELSE IF rep.same /\ rep.t = f THEN [t |-> f, n |-> rep.n + 1, same |-> TRUE]
  ELSE [t |-> nullptr, n |-> 0, same |-> FALSE]

(***************************************************************************)
(* The calls of the driver.                                                *)
(***************************************************************************)
Init ==
  /\ m_clauses = <<>>
  /\ m_state_preds = {}
  /\ m_body_idx = empty_map
  /\ m_head_idx = empty_map
  /\ m_incoming = empty_map
  /\ m_outgoing = empty_map
  /\ m_entry = nullptr
  /\ last = [op |-> "chc_dbt", arg |-> nullptr, indexed |-> {}]
  /\ rep = [t |-> nullptr, n |-> 0, same |-> TRUE]
  /\ chc = horn_clauset(Fact_A)
  /\ ret_is_fact = {}
  /\ ret_is_query = {}
  /\ ret_head = {}
  /\ ret_used_func_app = {}

DeclareRelation(state) ==
  /\ add_state_pred(state)
  /\ called("add_state_pred", state)
  /\ UNCHANGED <<m_clauses, m_body_idx, m_head_idx, graphvars, rep, clausevars>>

Insert(f) ==
  /\ \/ is_true(f)
     \/ \E i \in 1..Len(m_clauses) : get_chc(m_clauses[i]) = f
     \/ Len(m_clauses) < MaxClauses
  /\ ~ (rep.same /\ rep.t = f /\ rep.n >= MaxRepeat)
  /\ add_clause(f)
  /\ called("add_clause", f)
  /\ rep' = repeated(f)
  /\ UNCHANGED <<m_state_preds, graphvars, clausevars>>

BuildIndices ==
  /\ build_indices
  /\ called("build_indices", nullptr)
  /\ UNCHANGED <<m_clauses, m_state_preds, graphvars, rep, clausevars>>

ResetIndices ==
  /\ reset_indices
  /\ called("reset_indices", nullptr)
  /\ UNCHANGED <<m_clauses, m_state_preds, graphvars, rep, clausevars>>

BuildGraph ==
  /\ build_graph
  /\ called("build_graph", nullptr)
  /\ UNCHANGED <<dbvars, rep, clausevars>>

Next ==
  \/ \E state \in Relations : DeclareRelation(state)
  \/ \E f \in InsertInputs : Insert(f)
  \/ BuildIndices
  \/ ResetIndices
  \/ BuildGraph

Spec == Init /\ [][Next]_vars

(***************************************************************************)
(* The clause-level operations, applied to every clause of ClauseInputs,   *)
(* with a database that declares any subset of the relations.              *)
(***************************************************************************)
InitClause ==
  /\ m_clauses = <<>>
  /\ m_state_preds \in SUBSET Relations
  /\ m_body_idx = empty_map
  /\ m_head_idx = empty_map
  /\ m_incoming = empty_map
  /\ m_outgoing = empty_map
  /\ m_entry = nullptr
  /\ last = [op |-> "chc_dbt", arg |-> nullptr, indexed |-> {}]
  /\ rep = [t |-> nullptr, n |-> 0, same |-> TRUE]
  /\ chc \in {horn_clauset(f) : f \in ClauseInputs}
  /\ ret_is_fact = {}
  /\ ret_is_query = {}
  /\ ret_head = {}
  /\ ret_used_func_app = {}

CallIsFact ==
  /\ ret_is_fact' = {is_fact(chc)}
  /\ UNCHANGED <<dbvars, graphvars, histvars, chc, ret_is_query, ret_head,
                 ret_used_func_app>>

CallIsQuery ==
  /\ ret_is_query' = {is_query(chc)}
  /\ UNCHANGED <<dbvars, graphvars, histvars, chc, ret_is_fact, ret_head,
                 ret_used_func_app>>

CallHead ==
  /\ ret_head' = {head(chc)}
  /\ UNCHANGED <<dbvars, graphvars, histvars, chc, ret_is_fact, ret_is_query,
                 ret_used_func_app>>

CallUsedFuncApp ==
  /\ \E out \in used_func_app_out(chc, m_state_preds) :
       ret_used_func_app' = {out}
  /\ UNCHANGED <<dbvars, graphvars, histvars, chc, ret_is_fact, ret_is_query,
                 ret_head>>

NextClause ==
  \/ CallIsFact
  \/ CallIsQuery
  \/ CallHead
  \/ CallUsedFuncApp

SpecClause == InitClause /\ [][NextClause]_vars

(***************************************************************************)
(* Properties of the database, checked under Spec.                         *)
(***************************************************************************)
size == Len(m_clauses)

ids == 0..(size - 1)

\* the body of clause c holds an application of relation r
body_applies(c, r) ==
  \E e \in visit_pre(body(c)) : is_function_application(e) /\ function(e) = r

\* the head of clause c is a single application of relation r
head_applies(c, r) ==
  /\ head(c) # nullptr
  /\ is_function_application(head(c))
  /\ function(head(c)) = r

\* C1: whatever calls were made, no two clauses of the corpus are structurally
\* equal; and when every insert so far handed over the same clause (one or
\* more times, into the empty database) the corpus is that one clause.
C1_NoEqualClauses ==
  /\ \A i, j \in 1..size : i # j => m_clauses[i] # m_clauses[j]
  /\ (rep.same /\ rep.n >= 1 /\ ~ is_true(rep.t))
       => m_clauses = <<horn_clauset(rep.t)>>

C1_Witness ==
  /\ rep.same /\ rep.n >= 2 /\ ~ is_true(rep.t)
  /\ last.op = "add_clause"
  /\ size = 1

\* C2 as stated: an insert that appends a clause referencing a relation R that
\* has an index entry leaves use(R) and def(R) as they were.
C2_Original ==
  [][\A r \in Relations :
       (/\ last'.op = "add_clause"
        /\ Len(m_clauses') > Len(m_clauses)
        /\ r \in indexed
        /\ r \in visit_pre(last'.arg))
       => (use(r)' = use(r) /\ def(r)' = def(r))]_vars

\* C2 as amended: an insert that appends a clause referencing a relation R that
\* has an index entry empties use(R) and def(R), and they stay empty until
\* build_indices is called; only an insert that appends nothing leaves use(R)
\* and def(R) as they were.
C2_Amended ==
  [][\A r \in Relations :
       /\ (/\ last'.op = "add_clause"
           /\ Len(m_clauses') > Len(m_clauses)
           /\ r \in indexed
           /\ r \in visit_pre(last'.arg))
          => (use(r)' = {} /\ def(r)' = {})
       /\ (last'.op = "add_clause" /\ Len(m_clauses') = Len(m_clauses))
          => (use(r)' = use(r) /\ def(r)' = def(r))
       /\ (use(r) = {} /\ def(r) = {} /\ last'.op # "build_indices")
          => (use(r)' = {} /\ def(r)' = {})]_vars

C2_Witness ==
  /\ last.op = "add_clause"
  /\ size > 0
  /\ get_clause(size - 1) = horn_clauset(last.arg)
  /\ \E r \in last.indexed :
       r \in visit_pre(last.arg) /\ use(r) = {} /\ def(r) = {}

\* C3: an insert that appends a clause leaves use(r) and def(r) empty for every
\* relation r, and empty indices stay empty over every call but build_indices.
C3_InsertInvalidates ==
  [][/\ (last'.op = "add_clause" /\ Len(m_clauses') > Len(m_clauses))
        => \A r \in Relations : use(r)' = {} /\ def(r)' = {}
     /\ ((\A r \in Relations : use(r) = {} /\ def(r) = {})
         /\ last'.op # "build_indices")
        => \A r \in Relations : use(r)' = {} /\ def(r)' = {}]_vars

C3_Witness ==
  /\ last.op = "add_clause"
  /\ last.indexed # {}
  /\ \A r \in Relations : use(r) = {} /\ def(r) = {}

\* C5: right after build_indices, for every clause id and declared relation R,
\* id is in use(R) exactly when the body of the clause applies R, and id is in
\* def(R) when the head of the clause is a single application of R; the fact
\* forall x. True => A(x) is in def(A) and not in use(A).
C5_IndicesAfterBuild ==
  last.op = "build_indices" =>
    \A id \in ids : \A r \in m_state_preds :
      /\ id \in use(r) <=> body_applies(get_clause(id), r)
      /\ head_applies(get_clause(id), r) => id \in def(r)
      /\ (get_clause(id) = horn_clauset(Fact_A) /\ r = A)
           => (id \in def(r) /\ id \notin use(r))

C5_Witness ==
  /\ last.op = "build_indices"
  /\ A \in m_state_preds
  /\ \E id \in ids :
       /\ get_clause(id) = horn_clauset(Fact_A)
       /\ id \in def(A)
       /\ id \notin use(A)
  /\ \E id \in ids : id \in use(A)

\* C9: the corpus never shrinks, get_clause(id) keeps returning the same clause
\* over every call, and a clause that is added is the inserted one and gets the
\* id equal to the size before the call.
C9_IdsStable ==
  [][/\ Len(m_clauses') >= Len(m_clauses)
     /\ \A id \in ids : get_clause(id)' = get_clause(id)
     /\ Len(m_clauses') > Len(m_clauses)
        => /\ Len(m_clauses') = Len(m_clauses) + 1
           /\ last'.op = "add_clause"
           /\ \A id \in {size} : get_clause(id)' = horn_clauset(last'.arg)]_vars

C9_Witness ==
  /\ last.op = "add_clause"
  /\ size = 2
  /\ get_clause(1) = horn_clauset(last.arg)
  /\ get_clause(0) # get_clause(1)

\* C10: right after reset_indices, use(r) and def(r) are empty for every
\* relation r, whatever the indices held; the corpus and the declared set are
\* as before the call.
C10_ResetEmpties ==
  [][last'.op = "reset_indices"
     => /\ \A r \in Relations : use(r)' = {} /\ def(r)' = {}
        /\ m_clauses' = m_clauses
        /\ m_state_preds' = m_state_preds]_vars

C10_Witness ==
  /\ last.op = "reset_indices"
  /\ last.indexed # {}
  /\ size > 0
  /\ m_state_preds # {}
  /\ \A r \in Relations : use(r) = {} /\ def(r) = {}

\* C11: an insert of a term equal to a stored clause leaves the corpus, the
\* declared set and both indices as they were.
C11_EqualInsertNoOp ==
  [][(/\ last'.op = "add_clause"
      /\ \E id \in ids : get_chc(get_clause(id)) = last'.arg)
     => /\ m_clauses' = m_clauses
        /\ m_state_preds' = m_state_preds
        /\ m_body_idx' = m_body_idx
        /\ m_head_idx' = m_head_idx
        /\ \A r \in Relations : use(r)' = use(r) /\ def(r)' = def(r)]_vars

C11_Witness ==
  /\ last.op = "add_clause"
  /\ \E id \in ids : get_chc(get_clause(id)) = last.arg
  /\ last.indexed # {}
  /\ indexed = last.indexed

\* C12: an insert of a trivially-true term leaves the size of the corpus as it
\* was, and no clause of the corpus is trivially true.
C12_NoTrueClause ==
  /\ [](\A id \in ids : ~ is_true(get_chc(get_clause(id))))
  /\ [][(last'.op = "add_clause" /\ is_true(last'.arg))
        => Len(m_clauses') = Len(m_clauses)]_vars

C12_Witness ==
  /\ last.op = "add_clause"
  /\ is_true(last.arg)
  /\ size > 0

\* C13: get_clause(id) returns the clause at position id for id < size and is
\* an invariant violation for id >= size, the empty database included.
C13_GetClauseChecked ==
  \A id \in 0..(MaxClauses + 1) :
    /\ id < size => get_clause(id) = m_clauses[id + 1]
    /\ id >= size => get_clause(id) = invariant_violation

C13_Witness ==
  /\ size = 2
  /\ get_clause(1) = m_clauses[2]
  /\ get_clause(1) # invariant_violation
  /\ get_clause(2) = invariant_violation

\* C14: entry() is an invariant violation whenever has_entry() is false and a
\* relation whenever it is true; has_entry() is false after construction and
\* stays false until build_graph is called.
C14_EntryChecked ==
  /\ ~ has_entry
  /\ [](/\ ~ has_entry => entry = invariant_violation
        /\ has_entry => entry \in Relations)
  /\ [][(~ has_entry /\ last'.op # "build_graph") => ~ has_entry']_vars

C14_Witness ==
  /\ last.op = "build_graph"
  /\ ~ has_entry
  /\ entry = invariant_violation
  /\ size > 0

\* C17: add_state_pred(s) makes the declared set the old one plus s, so a
\* second declaration changes nothing; has_state_pred(s) holds after a call
\* exactly when it held before or the call declared s; no call removes a
\* declaration; add_state_pred leaves the corpus and both indices as they were.
C17_DeclareIdempotent ==
  [][/\ m_state_preds \subseteq m_state_preds'
     /\ \A s \in Relations :
          has_state_pred(s)' <=>
            (has_state_pred(s) \/ (last'.op = "add_state_pred" /\ last'.arg = s))
     /\ (last'.op = "add_state_pred")
        => /\ has_state_pred(last'.arg) => m_state_preds' = m_state_preds
           /\ m_clauses' = m_clauses
           /\ m_body_idx' = m_body_idx
           /\ m_head_idx' = m_head_idx]_vars

\* a second declaration of an indexed relation, with indices that a rebuild
\* would change
C17_Witness ==
  /\ last.op = "add_state_pred"
  /\ last.arg \in DOMAIN m_body_idx
  /\ m_head_idx # head_idx_of(m_clauses, m_state_preds)

(***************************************************************************)
(* Properties of the graph, checked under Spec.                            *)
(***************************************************************************)
\* C6: right after build_graph, for every clause that is neither a fact nor a
\* query, every declared relation a applied in its body and its head relation
\* c: c is in outgoing(a) and a is in incoming(c).
C6_EdgesAfterBuild ==
  last.op = "build_graph" =>
    \A i \in 1..size : \A a \in m_state_preds : \A c \in m_state_preds :
      (/\ ~ is_fact(m_clauses[i])
       /\ ~ is_query(m_clauses[i])
       /\ body_applies(m_clauses[i], a)
       /\ head_applies(m_clauses[i], c))
      => (c \in outgoing(a) /\ a \in incoming(c))

C6_Witness ==
  /\ last.op = "build_graph"
  /\ m_clauses = <<horn_clauset(Rule_ABC)>>
  /\ C \in outgoing(A)
  /\ C \in outgoing(B)
  /\ incoming(C) = {A, B}

\* the relations that head a fact clause and have no incoming edge
C7_Qualifying ==
  {r \in m_state_preds :
     /\ \E i \in 1..size : is_fact(m_clauses[i]) /\ head_applies(m_clauses[i], r)
     /\ incoming(r) = {}}

\* C7: right after build_graph, has_entry() holds exactly when one relation
\* heads a fact clause and has no incoming edge, and entry() is that relation.
C7_EntryAfterBuild ==
  last.op = "build_graph" =>
    /\ has_entry <=> Cardinality(C7_Qualifying) = 1
    /\ has_entry => entry \in C7_Qualifying

C7_Witness ==
  /\ last.op = "build_graph"
  /\ m_state_preds = {A, B, C}
  /\ m_clauses = <<horn_clauset(Fact_A), horn_clauset(Rule_ABC)>>
  /\ has_entry
  /\ entry = A

\* C8: add_clause, reset_indices, build_indices and add_state_pred leave
\* outgoing(r), incoming(r), has_entry() and entry() as they were.
C8_GraphUntouched ==
  [][last'.op \in {"add_clause", "reset_indices", "build_indices",
                   "add_state_pred"}
     => /\ \A r \in Relations :
             outgoing(r)' = outgoing(r) /\ incoming(r)' = incoming(r)
        /\ has_entry' = has_entry
        /\ entry' = entry]_vars

C8_Witness ==
  /\ last.op = "add_clause"
  /\ m_outgoing # empty_map
  /\ m_outgoing # outgoing_of(m_clauses, m_state_preds)
  /\ m_incoming # incoming_of(m_clauses, m_state_preds)

(***************************************************************************)
(* Properties of the clause, checked under SpecClause.                     *)
(***************************************************************************)
\* the formula of clause c holds no function application at all
no_application(c) ==
  ~ \E e \in visit_pre(get_chc(c)) : is_function_application(e)

\* C4 as stated: for a clause whose formula holds no function application,
\* is_fact() returns true and is_query() returns false.
C4_Original ==
  no_application(chc) =>
    (ret_is_fact \subseteq {TRUE} /\ ret_is_query \subseteq {FALSE})

\* C4 as amended: for a clause whose formula holds no function application,
\* is_fact() returns true, and is_query() returns false when the formula is
\* not an implication and true when it is one.
C4_Amended ==
  no_application(chc) =>
    /\ ret_is_fact \subseteq {TRUE}
    /\ ret_is_query \subseteq {is_implies(where(get_chc(chc)))}

C4_Witness ==
  /\ no_application(chc)
  /\ is_implies(where(get_chc(chc)))
  /\ ret_is_fact = {TRUE}
  /\ ret_is_query = {TRUE}

\* the formula under the quantifier of the clause under test
formula == where(get_chc(chc))

\* term e holds a function application
has_application(e) == \E n \in visit_pre(e) : is_function_application(n)

\* the antecedent of an implication, the whole formula otherwise
body_term == IF is_implies(formula) THEN formula.ops[1] ELSE formula

\* C15: is_query() returns true exactly when the formula is an implication
\* whose consequent holds no function application; forall x. A(x) => false is
\* a query.
C15_IsQuery ==
  /\ ret_is_query \subseteq
       {is_implies(formula) /\ ~ has_application(formula.ops[2])}
  /\ chc = horn_clauset(forall_exprt(<<x, y>>, implies_exprt(Ax, false_exprt)))
       => ret_is_query \subseteq {TRUE}

C15_Witness ==
  /\ chc = horn_clauset(forall_exprt(<<x, y>>, implies_exprt(Ax, false_exprt)))
  /\ ret_is_query = {TRUE}

\* C16: is_fact() returns true exactly when the body (the antecedent of an
\* implication, the whole formula otherwise) holds no function application,
\* whatever relations the database declares.
C16_IsFact ==
  ret_is_fact \subseteq {~ has_application(body_term)}

C16_Witness ==
  /\ m_state_preds = {}
  /\ ~ is_implies(formula)
  /\ has_application(formula)
  /\ ret_is_fact = {FALSE}

\* C19 as stated: a clause for which is_fact() and is_query() both returned
\* false has a head and a body that holds a relation application.
C19_Original ==
  (ret_is_fact = {FALSE} /\ ret_is_query = {FALSE})
    => (nullptr \notin ret_head /\ has_application(body_term))

\* C19 as amended: a clause for which is_fact() and is_query() both returned
\* false has a body that holds a function application; head() is present, and
\* holds a function application, when the formula is an implication, and is
\* absent when it is not.
C19_Amended ==
  (ret_is_fact = {FALSE} /\ ret_is_query = {FALSE})
    => /\ has_application(body_term)
       /\ is_implies(formula)
            => (ret_head \subseteq {formula.ops[2]}
                /\ has_application(formula.ops[2]))
       /\ ~ is_implies(formula) => ret_head \subseteq {nullptr}

C19_Witness ==
  /\ ret_is_fact = {FALSE}
  /\ ret_is_query = {FALSE}
  /\ ~ is_implies(formula)
  /\ ret_head = {nullptr}

\* the applications in the body of the clause under test whose applied
\* symbol the database declares
C20_Expected ==
  {e \in visit_pre(body_term) :
     is_function_application(e) /\ e.ops[1] \in m_state_preds}

\* C20: used_func_app writes to out exactly the function applications of the
\* body whose applied symbol is declared, each once, none that occurs only in
\* the head, and nothing for a clause for which is_fact() returned true.
C20_UsedFuncApp ==
  \A out \in ret_used_func_app :
    /\ {out[i] : i \in DOMAIN out} = C20_Expected
    /\ Len(out) = Cardinality(C20_Expected)
    /\ \A i \in DOMAIN out : out[i] \in visit_pre(body_term)
    /\ ret_is_fact = {TRUE} => out = <<>>

\* is_fact() returned false and nothing was written: the body applies only an
\* undeclared symbol, and the head applies a declared one
C20_Witness ==
  /\ ret_is_fact = {FALSE}
  /\ ret_used_func_app = {<<>>}
  /\ is_implies(formula)
  /\ \E n \in visit_pre(formula.ops[2]) :
       is_function_application(n) /\ n.ops[1] \in m_state_preds

====
